---- MODULE Spec2Model ----
(***************************************************************************)
(* Model of bybit_calculator.py: the aggregator compute_summary, the entry *)
(* reader input_entries and the scenario session of main, together with    *)
(* the inverse solver and combined-result verifier of the specification.   *)
(*                                                                         *)
(* Python floats are modelled as exact rationals [n, d] in lowest terms    *)
(* with d > 0; rounding error of binary floating point is outside the      *)
(* model.  A Python exception is modelled as an outcome of its own.        *)
(***************************************************************************)
EXTENDS Integers, Sequences, FiniteSets, TLC

VARIABLES
    pc,             \* position of the program
    side,           \* "long" or "short"
    mmr,            \* maintenance margin rate
    tp, sl,         \* take profit / stop loss prices
    raw,            \* the (entry price, margin, leverage) triples typed last
    base_entries,   \* main: base_entries
    entries,        \* main: entries (the current scenario)
    scenario_num,   \* main: scenario_num
    base_summary,   \* main: base_summary
    last_summary,   \* main: last_summary
    new_summary,    \* the result of the latest compute_summary call
    choice,         \* main: the menu choice read last
    solve           \* inverse solver: request, outcome and combined state

vars == <<pc, side, mmr, tp, sl, raw, base_entries, entries, scenario_num,
          base_summary, last_summary, new_summary, choice, solve>>

-----------------------------------------------------------------------------
(* Exact rational arithmetic standing for float arithmetic.                *)

Abs(x) == IF x < 0 THEN -x ELSE x

RECURSIVE GCD(_, _)
GCD(a, b) == IF b = 0 THEN a ELSE GCD(b, a % b)

Rat(n, d) ==
    LET g == GCD(Abs(n), Abs(d))
        s == IF d < 0 THEN -1 ELSE 1
    IN  [n |-> s * (n \div g), d |-> s * (d \div g)]

R(i) == [n |-> i, d |-> 1]

RatAdd(a, b) ==
    LET g == GCD(a.d, b.d)
    IN  Rat(a.n * (b.d \div g) + b.n * (a.d \div g), (a.d \div g) * b.d)
RatNeg(a)    == [n |-> -a.n, d |-> a.d]
RatSub(a, b) == RatAdd(a, RatNeg(b))
RatMul(a, b) ==
    LET g1 == GCD(Abs(a.n), b.d)
        g2 == GCD(Abs(b.n), a.d)
    IN  Rat((a.n \div g1) * (b.n \div g2), (a.d \div g2) * (b.d \div g1))
RatInv(a)    == Rat(a.d, a.n)
RatDiv(a, b) == RatMul(a, RatInv(b))
RatAbs(a)    == [n |-> Abs(a.n), d |-> a.d]
RatLt(a, b)  == a.n * b.d < b.n * a.d
RatLeq(a, b) == a.n * b.d <= b.n * a.d
RatIsZero(a) == a.n = 0

Zero == R(0)

\* Python's sum(): a left fold starting from 0.
RECURSIVE SumTo(_, _)
SumTo(s, k) == IF k = 0 THEN Zero ELSE RatAdd(SumTo(s, k - 1), s[k])

sum(s) == SumTo(s, Len(s))

-----------------------------------------------------------------------------
(* input_entries: the entry dict built from one (price, margin, leverage). *)

make_entry(t) ==
    LET notional == RatMul(t.im, t.lev)
        size_btc == RatDiv(notional, t.entry)
    IN  [entry |-> t.entry, im |-> t.im, lev |-> t.lev,
         notional |-> notional, size_btc |-> size_btc]

\* notional / entry_price raises ZeroDivisionError on a zero price.
input_raises(ts) == \E i \in 1..Len(ts) : RatIsZero(ts[i].entry)

input_entries(ts) == [i \in 1..Len(ts) |-> make_entry(ts[i])]

-----------------------------------------------------------------------------
(* compute_summary                                                         *)

total_notional(es) == sum([i \in 1..Len(es) |-> es[i].notional])

total_btc(es) == sum([i \in 1..Len(es) |-> es[i].size_btc])

\* if total_btc <= 0: return None
invalid_aggregate(tb) == RatLeq(tb, Zero)

weighted_sum(es) ==
    sum([i \in 1..Len(es) |-> RatMul(es[i].entry, es[i].size_btc)])

\* mutant: the mean weighted by margin instead of size
avg_entry_by_margin(es, tb) ==
    LET ims == sum([i \in 1..Len(es) |-> es[i].im])
    IN  IF RatIsZero(ims) THEN Zero
        ELSE RatDiv(sum([i \in 1..Len(es) |-> RatMul(es[i].entry, es[i].im)]),
                    ims)

\* mutant: the price of the entry added last taken as the average
avg_entry_of_last(es, tb) == es[Len(es)].entry

avg_entry(es, tb) == RatDiv(weighted_sum(es), tb)

total_im(es) == sum([i \in 1..Len(es) |-> es[i].im])

maintenance_margin(tn, m) == RatMul(tn, m)

\* mutant: the long and short formulas exchanged
liq_price_sides_swapped(sd, avg, tim, mm, tb) ==
    IF sd = "short"
    THEN RatSub(avg, RatDiv(RatSub(tim, mm), tb))
    ELSE RatAdd(avg, RatDiv(RatSub(tim, mm), tb))

\* mutant: the maintenance margin left out of the buffer
liq_price_no_maintenance(sd, avg, tim, mm, tb) ==
    IF sd = "short"
    THEN RatAdd(avg, RatDiv(tim, tb))
    ELSE RatSub(avg, RatDiv(tim, tb))

liq_price(sd, avg, tim, mm, tb) ==
    IF sd = "short"
    THEN RatAdd(avg, RatDiv(RatSub(tim, mm), tb))
    ELSE RatSub(avg, RatDiv(RatSub(tim, mm), tb))

\* PnL at an exit price x
pnl(sd, avg, tb, x) ==
    IF sd = "short"
    THEN RatMul(RatSub(avg, x), tb)
    ELSE RatMul(RatSub(x, avg), tb)

\* percentage move from the average entry; divides by avg_entry
move_pct(avg, x) == RatMul(RatDiv(RatSub(x, avg), avg), R(100))

\* f"{rr:.2f}": the ratio rounded to hundredths, ties to even
round2(q) ==
    LET num  == 100 * q.n
        fl   == num \div q.d
        rem2 == 2 * (num % q.d)
    IN  IF rem2 < q.d THEN fl
        ELSE IF rem2 > q.d THEN fl + 1
        ELSE IF fl % 2 = 0 THEN fl ELSE fl + 1

rr_text(risk, reward) ==
    IF RatLt(Zero, risk)
    THEN [kind |-> "ratio", hundredths |-> round2(RatDiv(reward, risk))]
    ELSE [kind |-> "N/A", hundredths |-> 0]

compute_summary(es, sd, m, t, s) ==
    LET tn == total_notional(es)
        tb == total_btc(es)
    IN  IF invalid_aggregate(tb) THEN [tag |-> "None"]
        ELSE
        LET avg == avg_entry(es, tb)
            tim == total_im(es)
            mm  == maintenance_margin(tn, m)
            liq == liq_price(sd, avg, tim, mm, tb)
        IN  IF RatIsZero(avg) THEN [tag |-> "ZeroDivisionError"]
            ELSE
            LET pnl_tp == pnl(sd, avg, tb, t)
                pnl_sl == pnl(sd, avg, tb, s)
            IN  [tag |-> "summary",
                 total_notional |-> tn,
                 total_btc |-> tb,
                 avg_entry |-> avg,
                 total_im |-> tim,
                 maintenance_margin |-> mm,
                 liq_price |-> liq,
                 pnl_tp |-> pnl_tp,
                 pnl_sl |-> pnl_sl,
                 move_tp_pct |-> move_pct(avg, t),
                 move_sl_pct |-> move_pct(avg, s),
                 rr_text |-> rr_text(RatAbs(pnl_sl), RatAbs(pnl_tp)),
                 tp |-> t,
                 sl |-> s]

-----------------------------------------------------------------------------
(* Inputs.  get_float accepts every float, so zero and negative prices,    *)
(* margins and leverages are inputs of the program like any other.         *)

MaxEntries == 3

T3(e, i, l) == [entry |-> R(e), im |-> R(i), lev |-> R(l)]

EntryInputs ==
    { T3(30000, 1000, 10),          \* the short example
      T3(100, 50, 5), T3(120, 50, 5),   \* the long example
      T3(1, 1, 1),
      T3(4, -2, 1),                 \* negative margin
      T3(0, 1, 1) }                 \* zero price

Sides == {"long", "short"}

MMRs == {Rat(1, 200), Zero}

TPs == {R(90)}

SLs == {R(100)}

SeqsUpTo(S, k) == UNION {[1..j -> S] : j \in 0..k}

NoSummary == [tag |-> "none yet"]

NoOutcome == [tag |-> "none yet", value |-> Zero]

NoSolve ==
    [mode |-> "", target |-> Zero, known |-> Zero, lev |-> Zero,
     outcome |-> NoOutcome, combined |-> NoSummary]

-----------------------------------------------------------------------------
(* SpecAgg: the aggregator as a pure function of the typed entries.        *)

InitAgg ==
    /\ pc = "agg_input"
    /\ side \in Sides
    /\ mmr \in MMRs
    /\ tp \in TPs
    /\ sl \in SLs
    /\ raw \in SeqsUpTo(EntryInputs, MaxEntries)
    /\ base_entries = <<>>
    /\ entries = <<>>
    /\ scenario_num = 0
    /\ base_summary = NoSummary
    /\ last_summary = NoSummary
    /\ new_summary = NoSummary
    /\ choice = ""
    /\ solve = NoSolve

AggInputEntries ==
    /\ pc = "agg_input"
    /\ IF input_raises(raw)
       THEN pc' = "crashed" /\ UNCHANGED entries
       ELSE pc' = "agg_call" /\ entries' = input_entries(raw)
    /\ UNCHANGED <<side, mmr, tp, sl, raw, base_entries, scenario_num,
                   base_summary, last_summary, new_summary, choice, solve>>

AggComputeSummary ==
    /\ pc = "agg_call"
    /\ new_summary' = compute_summary(entries, side, mmr, tp, sl)
    /\ pc' = "agg_done"
    /\ UNCHANGED <<side, mmr, tp, sl, raw, base_entries, entries, scenario_num,
                   base_summary, last_summary, choice, solve>>

NextAgg == AggInputEntries \/ AggComputeSummary

SpecAgg == InitAgg /\ [][NextAgg]_vars

-----------------------------------------------------------------------------
(* The totals of the specification, computed from the typed triples.       *)

SizeOf(t) == RatDiv(RatMul(t.im, t.lev), t.entry)

TotalSize(ts) == sum([i \in 1..Len(ts) |-> SizeOf(ts[i])])

TotalNotional(ts) == sum([i \in 1..Len(ts) |-> RatMul(ts[i].im, ts[i].lev)])

TotalMargin(ts) == sum([i \in 1..Len(ts) |-> ts[i].im])

PriceTimesSize(ts) ==
    sum([i \in 1..Len(ts) |-> RatMul(ts[i].entry, SizeOf(ts[i]))])

Positive(q) == RatLt(Zero, q)

\* C1: compute_summary returns no summary (None) whenever total_size <= 0
\* or total_notional <= 0, and a summary only when both are positive.
C1_InvalidAggregate ==
    pc = "agg_done" =>
        /\ (~Positive(TotalSize(raw)) \/ ~Positive(TotalNotional(raw)))
              => new_summary.tag = "None"
        /\ new_summary.tag = "summary"
              => (Positive(TotalSize(raw)) /\ Positive(TotalNotional(raw)))

ShortExample == <<T3(30000, 1000, 10)>>

LongExample == <<T3(100, 50, 5), T3(120, 50, 5)>>

\* C2: for every valid aggregate the liquidation price is
\* avg_entry + (total_margin - maintenance_margin) / total_size for a short
\* and avg_entry - (...) for a long, with maintenance_margin =
\* total_notional * mmr; one short entry {30000, 1000, 10} at mmr 0.005
\* gives 32850.
C2_LiquidationPrice ==
    (pc = "agg_done" /\ new_summary.tag = "summary") =>
        LET mm     == RatMul(TotalNotional(raw), mmr)
            buffer == RatDiv(RatSub(TotalMargin(raw), mm), TotalSize(raw))
        IN  /\ new_summary.maintenance_margin = mm
            /\ side = "short" =>
                 new_summary.liq_price = RatAdd(new_summary.avg_entry, buffer)
            /\ side = "long" =>
                 new_summary.liq_price = RatSub(new_summary.avg_entry, buffer)
            /\ (raw = ShortExample /\ side = "short" /\ mmr = Rat(1, 200))
                 => new_summary.liq_price = R(32850)

C2_Witness ==
    /\ pc = "agg_done"
    /\ raw = ShortExample /\ side = "short" /\ mmr = Rat(1, 200)
    /\ new_summary.tag = "summary"
    /\ new_summary.maintenance_margin = R(50)
    /\ new_summary.liq_price = R(32850)

\* C3: for every valid aggregate avg_entry is the size-weighted mean of the
\* entry prices: avg_entry * total_size = sum of entry_price_i * size_i with
\* size_i = initial_margin_i * leverage_i / entry_price_i; the two long
\* entries {100, 50, 5} and {120, 50, 5} give 1200/11 (109.09), not 110.
C3_SizeWeightedAverage ==
    (pc = "agg_done" /\ new_summary.tag = "summary") =>
        /\ RatMul(new_summary.avg_entry, TotalSize(raw)) = PriceTimesSize(raw)
        /\ new_summary.total_btc = TotalSize(raw)
        /\ raw = LongExample =>
             /\ new_summary.avg_entry = Rat(1200, 11)
             /\ round2(new_summary.avg_entry) = 10909

C3_Witness ==
    /\ pc = "agg_done"
    /\ raw = LongExample /\ side = "long"
    /\ new_summary.tag = "summary"
    /\ new_summary.total_btc = Rat(55, 12)
    /\ new_summary.avg_entry = Rat(1200, 11)
    /\ new_summary.avg_entry # R(110)

Reordered(es, p) == [i \in 1..Len(es) |-> es[p[i]]]

-----------------------------------------------------------------------------
(* Spec: the session of main.                                              *)

MaxBase == 2

MaxExtra == 1

MaxCurrent == 3

MaxScenario == 3

SessionInputs == {T3(1, 1, 1), T3(4, -2, 1), T3(0, 1, 1)}

SessionMMRs == {Rat(1, 200)}

Choices == {"1", "2", "3", "4"}

\* mutant: the loop goes on after an invalid aggregate
on_none_continue == "menu"

\* if ... is None: print(...); input("Press Enter to exit..."); return
on_none == "exited"

\* mutant: the new scenario built on the current entries
scenario_entries_from_current(base, current, extra) == current \o extra

\* scenario_entries = list(base_entries) + extra_entries
scenario_entries(base, current, extra) == base \o extra

\* mutant: entries = scenario_entries left out
entries_not_replaced(current, scenario) == current

\* entries = scenario_entries
entries_after_new_scenario(current, scenario) == scenario

\* where control goes after a compute_summary call in main
after_call(result) ==
    CASE result.tag = "None" -> on_none
      [] result.tag = "ZeroDivisionError" -> "crashed"
      [] OTHER -> "menu"

Init ==
    /\ pc = "start"
    /\ side = ""
    /\ mmr = Zero
    /\ tp = Zero
    /\ sl = Zero
    /\ raw = <<>>
    /\ base_entries = <<>>
    /\ entries = <<>>
    /\ scenario_num = 0
    /\ base_summary = NoSummary
    /\ last_summary = NoSummary
    /\ new_summary = NoSummary
    /\ choice = ""
    /\ solve = NoSolve

\* main, up to scenario_num = 1: side, MMR, the base entries, TP and SL
ReadInputs ==
    /\ pc = "start"
    /\ \E sd \in Sides, m \in SessionMMRs, ts \in SeqsUpTo(SessionInputs, MaxBase),
          t \in TPs, s \in SLs :
        /\ side' = sd
        /\ mmr' = m
        /\ raw' = ts
        /\ IF input_raises(ts)
           THEN /\ pc' = "crashed"
                /\ UNCHANGED <<tp, sl, base_entries, entries, scenario_num>>
           ELSE /\ base_entries' = input_entries(ts)
                /\ entries' = input_entries(ts)
                /\ tp' = t
                /\ sl' = s
                /\ scenario_num' = 1
                /\ pc' = "base"
    /\ UNCHANGED <<base_summary, last_summary, new_summary, choice, solve>>

\* the first summary: base_summary, and last_summary = base_summary
BaseSummary ==
    /\ pc = "base"
    /\ LET result == compute_summary(base_entries, side, mmr, tp, sl)
       IN  /\ pc' = after_call(result)
           /\ IF result.tag = "ZeroDivisionError"
              THEN UNCHANGED <<base_summary, last_summary>>
              ELSE /\ base_summary' = result
                   /\ last_summary' =
                        IF result.tag = "summary" THEN result ELSE last_summary
    /\ UNCHANGED <<side, mmr, tp, sl, raw, base_entries, entries, scenario_num,
                   new_summary, choice, solve>>

\* choice "1": add entries to the current scenario and recalculate
AddToCurrent ==
    /\ pc = "menu"
    /\ choice' = "1"
    /\ \E ts \in SeqsUpTo(SessionInputs, MaxExtra) :
        /\ Len(entries) + Len(ts) <= MaxCurrent
        /\ raw' = ts
        /\ IF input_raises(ts)
           THEN /\ pc' = "crashed"
                /\ UNCHANGED <<entries, new_summary, last_summary>>
           ELSE LET extended == entries \o input_entries(ts)
                    result   == compute_summary(extended, side, mmr, tp, sl)
                IN  /\ entries' = extended
                    /\ pc' = after_call(result)
                    /\ new_summary' =
                         IF result.tag = "ZeroDivisionError"
                         THEN new_summary ELSE result
                    /\ last_summary' =
                         IF result.tag = "summary" THEN result ELSE last_summary
    /\ UNCHANGED <<side, mmr, tp, sl, base_entries, scenario_num, base_summary,
                   solve>>

\* choice "2": a new scenario, the base entries plus new extra entries
NewScenario ==
    /\ pc = "menu"
    /\ scenario_num < MaxScenario
    /\ choice' = "2"
    /\ scenario_num' = scenario_num + 1
    /\ \E ts \in SeqsUpTo(SessionInputs, MaxExtra) :
        /\ raw' = ts
        /\ IF input_raises(ts)
           THEN /\ pc' = "crashed"
                /\ UNCHANGED <<entries, new_summary, last_summary>>
           ELSE LET scenario ==
                        scenario_entries(base_entries, entries, input_entries(ts))
                    result == compute_summary(scenario, side, mmr, tp, sl)
                IN  /\ pc' = after_call(result)
                    /\ new_summary' =
                         IF result.tag = "ZeroDivisionError"
                         THEN new_summary ELSE result
                    /\ IF result.tag = "summary"
                       THEN /\ entries' =
                                 entries_after_new_scenario(entries, scenario)
                            /\ last_summary' = result
                       ELSE UNCHANGED <<entries, last_summary>>
    /\ UNCHANGED <<side, mmr, tp, sl, base_entries, base_summary, solve>>

\* choice "3": leave the loop
Exit ==
    /\ pc = "menu"
    /\ choice' = "3"
    /\ pc' = "done"
    /\ UNCHANGED <<side, mmr, tp, sl, raw, base_entries, entries, scenario_num,
                   base_summary, last_summary, new_summary, solve>>

\* any other choice: "Invalid choice. Please type 1, 2, or 3."
InvalidChoice ==
    /\ pc = "menu"
    /\ choice' \in Choices \ {"1", "2", "3"}
    /\ UNCHANGED <<pc, side, mmr, tp, sl, raw, base_entries, entries,
                   scenario_num, base_summary, last_summary, new_summary, solve>>

Next ==
    \/ ReadInputs
    \/ BaseSummary
    \/ AddToCurrent
    \/ NewScenario
    \/ Exit
    \/ InvalidChoice

Spec == Init /\ [][Next]_vars

LastCallInvalid == base_summary.tag = "None" \/ new_summary.tag = "None"

\* C8 as stated: after the aggregator signals an invalid aggregate the
\* session goes on accepting actions instead of terminating.
C8_InvalidAggregateRecoverable == LastCallInvalid => pc = "menu"

\* C8 as amended: after the aggregator signals an invalid aggregate (for the
\* base entries, after adding to the current scenario, or in a new scenario)
\* the session reports it and terminates; no further action is accepted, and
\* the session terminates this way for no other reason.
C8_InvalidAggregateExits ==
    /\ LastCallInvalid <=> pc = "exited"
    /\ pc = "exited" => ~ENABLED Next

C8_Witness ==
    /\ pc = "exited"
    /\ choice = "1"
    /\ base_summary.tag = "summary"
    /\ new_summary.tag = "None"
    /\ Len(entries) > Len(base_entries)

IsPrefix(p, q) == Len(p) <= Len(q) /\ \A i \in 1..Len(p) : p[i] = q[i]

\* C9: the menu actions leave base_entries and base_summary as they were, the
\* current entries always start with the base entries, and a new-scenario
\* action makes the current entries the base entries followed by the extra
\* entries just typed.
C9_BaseKept ==
    [][ /\ IsPrefix(base_entries', entries')
        /\ pc = "menu" =>
             /\ base_entries' = base_entries
             /\ base_summary' = base_summary
             /\ (choice' = "2" /\ pc' = "menu")
                  => entries' = base_entries \o input_entries(raw') ]_vars

C9_Witness ==
    /\ pc = "menu"
    /\ choice = "2"
    /\ scenario_num = 3
    /\ Len(raw) = 1
    /\ entries = base_entries \o input_entries(raw)
    /\ base_summary = compute_summary(base_entries, side, mmr, tp, sl)

\* C10: at the start of every loop iteration last_summary is the aggregate of
\* the current entries; an invalid choice changes neither the entries, the
\* remembered summary nor the scenario number; the scenario number grows by
\* one per new-scenario action and not otherwise.
C10_SummaryTracksEntries ==
    [][ /\ pc' = "menu" =>
             last_summary' = compute_summary(entries', side', mmr', tp', sl')
        /\ pc = "menu" =>
             /\ scenario_num' = scenario_num + (IF choice' = "2" THEN 1 ELSE 0)
             /\ choice' \notin {"1", "2", "3"} =>
                  /\ entries' = entries
                  /\ last_summary' = last_summary
                  /\ pc' = "menu" ]_vars

C10_Witness ==
    /\ pc = "menu"
    /\ choice = "1"
    /\ scenario_num = 2
    /\ Len(entries) = Len(base_entries) + 2
    /\ last_summary = new_summary
    /\ last_summary # base_summary

-----------------------------------------------------------------------------
(* The inverse solver and the combined-result verifier, as the             *)
(* specification states them (sections 4.2 and 4.3); b is a summary        *)
(* returned by compute_summary, T the target liquidation price, L the      *)
(* leverage of the new position and m the maintenance margin rate.         *)

\* mutant: the degenerate case is not tested
degenerate_never(den) == FALSE

\* |den| < 1e-12, for den = n/d: |n| * 10^12 < d
degenerate(den) == Abs(den.n) <= ((den.d - 1) \div 1000000) \div 1000000

non_positive(v) == RatLeq(v, Zero)

\* num / den under the failure policy of the solver
solved(num, den) ==
    IF degenerate(den) THEN [tag |-> "NoSolution", value |-> Zero]
    ELSE IF RatIsZero(den) THEN [tag |-> "ZeroDivisionError", value |-> Zero]
    ELSE LET v == RatDiv(num, den)
         IN  IF non_positive(v) THEN [tag |-> "NonPositiveResult", value |-> v]
             ELSE [tag |-> "ok", value |-> v]

margin_num(b, sd, T, m) ==
    LET A == RatMul(b.avg_entry, b.total_btc)
        B == b.total_btc
        C == b.total_notional
    IN  IF sd = "short"
        THEN RatSub(RatMul(T, B),
                    RatSub(RatAdd(A, b.total_im), RatMul(C, m)))
        ELSE RatSub(RatMul(T, B),
                    RatAdd(RatSub(A, b.total_im), RatMul(C, m)))

margin_den(sd, T, e, L, m) ==
    IF sd = "short"
    THEN RatSub(RatSub(RatAdd(L, R(1)), RatMul(L, m)),
                RatDiv(RatMul(T, L), e))
    ELSE RatSub(RatAdd(RatSub(L, R(1)), RatMul(L, m)),
                RatDiv(RatMul(T, L), e))

\* (a) the new margin for a known new entry price e
solve_margin(b, sd, T, e, L, m) ==
    solved(margin_num(b, sd, T, m), margin_den(sd, T, e, L, m))

entry_N0(b, sd, K, L, m) ==
    LET A == RatMul(b.avg_entry, b.total_btc)
        C == b.total_notional
    IN  IF sd = "short"
        THEN RatSub(RatSub(RatAdd(RatAdd(A, b.total_im), K), RatMul(C, m)),
                    RatMul(RatMul(K, L), m))
        ELSE RatAdd(RatAdd(RatSub(A, b.total_im), RatMul(C, m)),
                    RatMul(K, RatAdd(RatSub(L, R(1)), RatMul(L, m))))

entry_den(b, sd, T, K, L, m) ==
    RatSub(entry_N0(b, sd, K, L, m), RatMul(T, b.total_btc))

\* (b) the new entry price for a known new margin K
solve_entry(b, sd, T, K, L, m) ==
    solved(RatMul(RatMul(T, K), L), entry_den(b, sd, T, K, L, m))

\* the aggregate with the new position appended to the original entries
verify(es, sd, m, t, s, im, e, L) ==
    compute_summary(Append(es, make_entry([entry |-> e, im |-> im, lev |-> L])),
                    sd, m, t, s)

MaxSolveBase == 2

SolverInputs == {T3(100, 50, 5), T3(120, 50, 5), T3(1, 1, 1)}

Targets == {R(100), R(102), R(200), R(219)}

Knowns == {R(100), R(200)}

Levs == {R(1), R(2), R(10)}

InitSolver ==
    /\ pc = "solver_base"
    /\ side \in Sides
    /\ mmr \in MMRs
    /\ tp \in TPs
    /\ sl \in SLs
    /\ raw \in SeqsUpTo(SolverInputs, MaxSolveBase) \ {<<>>}
    /\ base_entries = input_entries(raw)
    /\ entries = input_entries(raw)
    /\ scenario_num = 0
    /\ base_summary = NoSummary
    /\ last_summary = NoSummary
    /\ new_summary = NoSummary
    /\ choice = ""
    /\ solve = NoSolve

\* the base state
SolverAggregate ==
    /\ pc = "solver_base"
    /\ base_summary' = compute_summary(base_entries, side, mmr, tp, sl)
    /\ pc' = "solver_request"
    /\ UNCHANGED <<side, mmr, tp, sl, raw, base_entries, entries, scenario_num,
                   last_summary, new_summary, choice, solve>>

\* the user picks a target, a mode, the known value and the leverage
SolverRequest ==
    /\ pc = "solver_request"
    /\ base_summary.tag = "summary"
    /\ \E md \in {"margin", "entry"}, k \in Knowns, L \in Levs :
        \E T \in Targets \cup
                 (IF md = "margin" THEN {base_summary.liq_price} ELSE {}) :
            solve' = [solve EXCEPT !.mode = md, !.target = T, !.known = k,
                                   !.lev = L]
    /\ pc' = "solver_solve"
    /\ UNCHANGED <<side, mmr, tp, sl, raw, base_entries, entries, scenario_num,
                   base_summary, last_summary, new_summary, choice>>

SolverSolve ==
    /\ pc = "solver_solve"
    /\ LET out == IF solve.mode = "margin"
                  THEN solve_margin(base_summary, side, solve.target,
                                    solve.known, solve.lev, mmr)
                  ELSE solve_entry(base_summary, side, solve.target,
                                   solve.known, solve.lev, mmr)
       IN  /\ solve' = [solve EXCEPT !.outcome = out]
           /\ pc' = IF out.tag = "ok" THEN "solver_verify" ELSE "solver_failed"
    /\ UNCHANGED <<side, mmr, tp, sl, raw, base_entries, entries, scenario_num,
                   base_summary, last_summary, new_summary, choice>>

SolverVerify ==
    /\ pc = "solver_verify"
    /\ LET im == IF solve.mode = "margin" THEN solve.outcome.value
                 ELSE solve.known
           e  == IF solve.mode = "margin" THEN solve.known
                 ELSE solve.outcome.value
       IN  solve' = [solve EXCEPT !.combined =
                        verify(base_entries, side, mmr, tp, sl, im, e,
                               solve.lev)]
    /\ pc' = "solver_done"
    /\ UNCHANGED <<side, mmr, tp, sl, raw, base_entries, entries, scenario_num,
                   base_summary, last_summary, new_summary, choice>>

NextSolver == SolverAggregate \/ SolverRequest \/ SolverSolve \/ SolverVerify

SpecSolver == InitSolver /\ [][NextSolver]_vars

\* |a - T| <= 1e-6 * |T|
WithinTolerance(a, T) ==
    LET diff == RatAbs(RatSub(a, T))
    IN  diff.n * T.d <= (Abs(T.n) * diff.d) \div 1000000

\* C5: whenever the solver returns a value, appending the solved position to
\* the base entries and recomputing the aggregate reproduces the target
\* liquidation price within 1e-6 relative tolerance, in both modes and for
\* both sides.
C5_RoundTrip ==
    pc = "solver_done" =>
        /\ solve.combined.tag = "summary"
        /\ WithinTolerance(solve.combined.liq_price, solve.target)

\* the round trip in the modes other than short solve-for-entry
C5_RoundTripOtherModes ==
    (pc = "solver_done" /\ ~(side = "short" /\ solve.mode = "entry")) =>
        /\ solve.combined.tag = "summary"
        /\ solve.combined.liq_price = solve.target

Solved == pc \in {"solver_verify", "solver_failed", "solver_done"}

RequestNum ==
    IF solve.mode = "margin"
    THEN margin_num(base_summary, side, solve.target, mmr)
    ELSE RatMul(RatMul(solve.target, solve.known), solve.lev)

RequestDen ==
    IF solve.mode = "margin"
    THEN margin_den(side, solve.target, solve.known, solve.lev, mmr)
    ELSE entry_den(base_summary, side, solve.target, solve.known, solve.lev,
                   mmr)

\* |q| * 10^12 < 1
BelowEpsilon(q) == Abs(q.n) < 1 + ((q.d - 1) \div 1000000) \div 1000000

\* C6: in both modes and for both sides a denominator of magnitude below
\* 1e-12 yields NoSolution and never a division result.
C6_DegenerateNoSolution ==
    (Solved /\ BelowEpsilon(RequestDen)) =>
        /\ solve.outcome.tag = "NoSolution"
        /\ solve.outcome.value = Zero
        /\ pc = "solver_failed"

C6_Witness ==
    /\ Solved
    /\ solve.mode = "margin"
    /\ side = "short"
    /\ RatIsZero(RequestDen)
    /\ ~RatIsZero(RequestNum)
    /\ solve.outcome.tag = "NoSolution"

=============================================================================
